---------------------------- MODULE Spec2Model ----------------------------
(***************************************************************************)
(* Music-Separation-as-a-Service: the REST front end (rest-server.py) and  *)
(* the worker (worker.py), with the Redis list 'toWorker' and the MinIO    *)
(* buckets 'queue' and 'output' they share.                                *)
(*                                                                         *)
(* Every store call is one atomic step; the steps of concurrent request    *)
(* handlers and of the workers interleave freely.  A store call either     *)
(* succeeds, or raises S3Error (MinIO answered with an error), or raises   *)
(* another exception (the store could not be reached).                     *)
(***************************************************************************)
EXTENDS Integers, Sequences, FiniteSets, TLC

(***************************************************************************)
(* Bounds of the model.                                                    *)
(***************************************************************************)
MaxRequests == 2      \* POST /apiv1/separate requests received in a run
MaxFaults   == 2      \* failures met by the workers in a run: failed store
                      \* calls, engine failures, failed POSTs, interrupts
MaxHandlers == 2      \* request-handler threads inside separate() at a time
MaxForeign  == 1      \* entries pushed onto 'toWorker' by another client

Workers  == {"w1", "w2"}    \* worker processes competing on 'toWorker'

(***************************************************************************)
(* Values.                                                                 *)
(***************************************************************************)
None    == "None"       \* Python None
NoField == "NoField"    \* a key absent from the request's JSON object
NoJob   == [id |-> 0]   \* a worker with no work item in hand
NotRun  == -1           \* the exit status of an engine that has not run
NoHash  == -1           \* the hash of an entry that did not decode
NoResponse == [op |-> "none"]   \* the step taken answered no request

\* the JSON bodies posted to /apiv1/separate: the 'mp3' field is absent or a
\* base64 string, the 'model' and 'callback' fields are optional
Requests ==
    { [mp3 |-> NoField, model |-> NoField,     callback |-> NoField],
      [mp3 |-> "A",     model |-> NoField,     callback |-> NoField],
      [mp3 |-> "",      model |-> NoField,     callback |-> "http://cb"],
      [mp3 |-> "AA==",  model |-> NoField,     callback |-> NoField],
      [mp3 |-> "AB==",  model |-> "mdx_extra", callback |-> "http://cb"],
      [mp3 |-> "AQ==",  model |-> "mdx_extra", callback |-> NoField] }

\* outcome of a MinIO call and of a Redis call
MinioOutcomes == {"ok", "S3Error", "Exception"}
RedisOutcomes == {"ok", "Exception"}

\* worker.py line 134
tracks == <<"bass.mp3", "drums.mp3", "vocals.mp3", "other.mp3">>
Tracks == {tracks[i] : i \in 1..Len(tracks)}

\* track names a client asks for: one of the four fixed ones and a foreign one
TrackNames == {"bass.mp3", "missingtrack.mp3"}

(***************************************************************************)
(* Pure functions of rest-server.py.                                       *)
(***************************************************************************)
\* base64.b64decode(s): "A" has incorrect padding and raises binascii.Error;
\* "AA==" and "AB==" both decode to the one byte 0x00 (the non-canonical
\* trailing bits are discarded), "AQ==" to 0x01, "" to the empty string.
B64Valid(s) == s \in {"", "AA==", "AB==", "AQ=="}

B64Decode(s) ==
    CASE s = ""     -> <<>>
      [] s = "AA==" -> <<0>>
      [] s = "AB==" -> <<0>>
      [] s = "AQ==" -> <<1>>

\* hashlib.sha256(mp3_data).hexdigest()[:56]: a deterministic digest of the
\* bytes alone (a small polynomial digest stands for SHA-256).
RECURSIVE Sha256Hex56(_)
Sha256Hex56(mp3_data) ==
    IF mp3_data = <<>> THEN 7
    ELSE (31 * Sha256Hex56(Tail(mp3_data)) + Head(mp3_data) + 1) % 251

\* f"{songhash}.mp3"
StagedName(songhash) == <<songhash, ".mp3">>

\* f"{songhash}-{track}"
ObjectName(songhash, track) == <<songhash, "-", track>>

\* data.get(key, default)
DataGet(field, default) == IF field = NoField THEN default ELSE field

\* jsonpickle.encode / jsonpickle.decode of a work item
JsonEncode(work_item) ==
    <<work_item.hash, work_item.model, work_item.callback>>
JsonDecode(work_data) ==
    [hash |-> work_data[1], model |-> work_data[2], callback |-> work_data[3]]

\* a text that is not JSON, on which jsonpickle.decode raises (the case the
\* handlers of rest-server.py lines 93-97 and worker.py lines 227-229 are for)
Garbage == <<"{">>
JsonParses(work_data) == Len(work_data) = 3

(***************************************************************************)
(* The stores.                                                             *)
(***************************************************************************)
\* (a put that stores nothing, and a put that replaces the whole bucket)
PutObjectLost(bucket, object_name, content) == bucket
PutObjectAlone(bucket, object_name, content) ==
    [k \in {object_name} |-> content]

\* minioClient.put_object / fput_object: create or overwrite one object
PutObject(bucket, object_name, content) ==
    [k \in DOMAIN bucket \cup {object_name} |->
        IF k = object_name THEN content ELSE bucket[k]]

\* (a removal that leaves the object in place)
RemoveObjectKeep(bucket, object_name) == bucket

\* minioClient.remove_object: no error when the object does not exist
RemoveObject(bucket, object_name) ==
    [k \in DOMAIN bucket \ {object_name} |-> bucket[k]]

\* (a push that skips a descriptor whose hash is already queued, and a push
\* that appends the descriptor twice)
LPushDropDuplicate(list, element) ==
    IF \E i \in 1..Len(list) : list[i].data[1] = element.data[1]
    THEN list ELSE <<element>> \o list
LPushTwice(list, element) == <<element, element>> \o list

\* redisClient.lpush: the new element becomes the head of the list
LPush(list, element) == <<element>> \o list

\* (a pop that leaves the element in the list, a pop that puts it back at
\* the other end, and a pop that empties the list)
BLPopKeep(list) == list
BLPopDrain(list) == <<>>
BLPopRequeue(list) == Tail(list) \o <<Head(list)>>

\* redisClient.blpop: returns the head of the list and removes it
BLPopValue(list) == Head(list)
BLPopRest(list) == Tail(list)

VARIABLES
    queueBucket,    \* MinIO bucket 'queue':  object name -> bytes
    outputBucket,   \* MinIO bucket 'output': object name -> content
    toWorker,       \* Redis list 'toWorker', head first
    pending,        \* the work items staged by handler threads, not yet pushed
    resp,           \* the HTTP response sent by the step just taken, if any
    accepted,       \* number of /apiv1/separate requests received
    pc,             \* per worker: position in main / process_work_item
    job,            \* per worker: the work item in hand and its locals
    inputFiles,     \* per worker: songhashes with a file in /tmp/input
    outputDirs,     \* per worker: /tmp/output/*/<songhash> -> track -> content
    enqueued,       \* history: the ids of the entries pushed, in order
    deliveries,     \* history: what blpop returned, in order
    results,        \* history: entry id -> what process_work_item returned
    faults          \* history: number of failures so far

vars == <<queueBucket, outputBucket, toWorker, pending, resp, accepted,
          pc, job, inputFiles, outputDirs, enqueued, deliveries, results, faults>>

restVars   == <<pending, accepted, enqueued>>
workerVars == <<pc, job, inputFiles, outputDirs, deliveries, results>>

EmptyMap == [k \in {} |-> None]

Init ==
    /\ queueBucket = EmptyMap
    /\ outputBucket = EmptyMap
    /\ toWorker = <<>>
    /\ pending = {}
    /\ resp = NoResponse
    /\ accepted = 0
    /\ pc = [w \in Workers |-> "blpop"]
    /\ job = [w \in Workers |-> NoJob]
    /\ inputFiles = [w \in Workers |-> {}]
    /\ outputDirs = [w \in Workers |-> EmptyMap]
    /\ enqueued = <<>>
    /\ deliveries = <<>>
    /\ results = EmptyMap
    /\ faults = 0

\* a worker's step in which something fails counts as one failure
Faulty(failed) ==
    IF failed THEN faults < MaxFaults /\ faults' = faults + 1
    ELSE UNCHANGED faults

Respond(op, args, status, body) ==
    resp' = [op |-> op, args |-> args, status |-> status, body |-> body]


(***************************************************************************)
(* rest-server.py                                                          *)
(***************************************************************************)
\* the fingerprint a client asks about
SongHashes == {Sha256Hex56(<<0>>)}

\* separate(), lines 62-76: validation, decoding, fingerprint and the staging
\* of the blob; an exception of any kind is answered with 500 (lines 83-85).
SeparateStage(data, put) ==
    /\ Cardinality(pending) < MaxHandlers
    /\ accepted < MaxRequests
    /\ accepted' = accepted + 1
    /\ UNCHANGED <<outputBucket, toWorker, enqueued, workerVars, faults>>
    /\ IF data.mp3 = NoField
       THEN /\ Respond("separate", <<>>, 400, "Missing mp3 data in request")
            /\ UNCHANGED <<queueBucket, pending>>
       ELSE IF ~B64Valid(data.mp3)
       THEN /\ Respond("separate", <<>>, 500, "error")
            /\ UNCHANGED <<queueBucket, pending>>
       ELSE LET mp3_data == B64Decode(data.mp3)
                model    == DataGet(data.model, "htdemucs")
                callback == DataGet(data.callback, None)
                songhash == Sha256Hex56(mp3_data)
            IN  IF put = "ok"
                THEN /\ queueBucket' =
                            PutObject(queueBucket, StagedName(songhash), mp3_data)
                     /\ pending' = pending \cup
                            {[id |-> accepted + 1, mp3_data |-> mp3_data,
                              work_item |-> [hash |-> songhash, model |-> model,
                                             callback |-> callback]]}
                     /\ resp' = NoResponse
                ELSE /\ Respond("separate", <<>>, 500, "error")
                     /\ UNCHANGED <<queueBucket, pending>>

\* separate(), lines 78-85: the push onto 'toWorker' and the response
SeparatePush(item, push) ==
    /\ item \in pending
    /\ pending' = pending \ {item}
    /\ UNCHANGED <<queueBucket, outputBucket, accepted, workerVars, faults>>
    /\ IF push = "ok"
       THEN /\ toWorker' = LPush(toWorker,
                    [id |-> item.id, mp3_data |-> item.mp3_data,
                     data |-> JsonEncode(item.work_item)])
            /\ enqueued' = Append(enqueued, item.id)
            /\ Respond("separate", <<>>, 200, item.work_item.hash)
       ELSE /\ Respond("separate", <<>>, 500, "error")
            /\ UNCHANGED <<toWorker, enqueued>>

\* 'toWorker' is a list of the shared Redis server: another client of the
\* server pushes an entry that is not a work item of separate()
Foreign ==
    {id \in {toWorker[i].id : i \in 1..Len(toWorker)}
              \cup {deliveries[i].id : i \in 1..Len(deliveries)} : id < 0}

ForeignPush ==
    /\ Cardinality(Foreign) < MaxForeign
    /\ toWorker' = LPush(toWorker,
           [id |-> -(Cardinality(Foreign) + 1), mp3_data |-> <<>>, data |-> Garbage])
    /\ resp' = NoResponse
    /\ UNCHANGED <<queueBucket, outputBucket, restVars, workerVars, faults>>

\* (a listing that ends at the first entry that does not decode)
RECURSIVE QueueHashesUntilBad(_)
QueueHashesUntilBad(queue_items) ==
    IF queue_items = <<>> \/ ~JsonParses(Head(queue_items).data) THEN <<>>
    ELSE <<JsonDecode(Head(queue_items).data).hash>>
             \o QueueHashesUntilBad(Tail(queue_items))

\* get_queue(), lines 89-102: the hashes of the entries lrange returns, in
\* its order; an entry on which decode raises is passed over (lines 96-97)
Decodes(item) == JsonParses(item.data)

QueueHashes(queue_items) ==
    LET decoded == SelectSeq(queue_items, Decodes)
    IN  [i \in 1..Len(decoded) |-> JsonDecode(decoded[i].data).hash]

GetQueue(lrange) ==
    /\ IF lrange = "ok"
       THEN Respond("queue", <<>>, 200, QueueHashes(toWorker))
       ELSE Respond("queue", <<>>, 500, "error")
    /\ UNCHANGED <<queueBucket, outputBucket, toWorker, restVars, workerVars, faults>>

\* (a get_track that never finds the object)
GetTrackAlways404(bucket, object_name, get) ==
    [status |-> 404, body |-> "Track not found"]

\* get_track(), lines 106-120: S3Error (NoSuchKey among others) -> 404,
\* any other exception -> 500, else the object's bytes
GetTrackResult(bucket, object_name, get) ==
    IF get = "Exception"
    THEN [status |-> 500, body |-> "error"]
    ELSE IF get = "S3Error" \/ object_name \notin DOMAIN bucket
    THEN [status |-> 404, body |-> "Track not found"]
    ELSE [status |-> 200, body |-> bucket[object_name]]

GetTrack(songhash, track, get) ==
    /\ LET r == GetTrackResult(outputBucket, ObjectName(songhash, track), get)
       IN  Respond("track", <<songhash, track, get>>, r.status, r.body)
    /\ UNCHANGED <<queueBucket, outputBucket, toWorker, restVars, workerVars, faults>>

\* remove_track(), lines 124-131: any exception is answered with 500
RemoveTrack(songhash, track, remove) ==
    /\ IF remove = "ok"
       THEN /\ outputBucket' = RemoveObject(outputBucket, ObjectName(songhash, track))
            /\ Respond("remove", <<songhash, track, "ok">>, 200, "success")
       ELSE /\ Respond("remove", <<songhash, track, "raised">>, 500, "error")
            /\ UNCHANGED outputBucket
    /\ UNCHANGED <<queueBucket, toWorker, restVars, workerVars, faults>>

(***************************************************************************)
(* worker.py                                                               *)
(***************************************************************************)
\* what one run of "python3 -m demucs.separate" may do: its exit status and
\* the track files it wrote (all four, all but one, one, or none)
EngineRuns ==
    { [exit_code |-> 0, written |-> Tracks],
      [exit_code |-> 0, written |-> Tracks \ {"bass.mp3"}],
      [exit_code |-> 0, written |-> {}],
      [exit_code |-> 1, written |-> {}],
      [exit_code |-> 1, written |-> {"bass.mp3"}] }

SetJob(w, fields) == job' = [job EXCEPT ![w] = fields @@ job[w]]
Goto(w, label)    == pc' = [pc EXCEPT ![w] = label]

\* main(), lines 218-229: blpop, decode, enter process_work_item; when
\* decode raises, the loop goes on with the next blpop (lines 227-229)
BLPop(w) ==
    /\ pc[w] = "blpop"
    /\ UNCHANGED faults
    /\ resp' = NoResponse
    /\ toWorker # <<>>
    /\ LET work      == BLPopValue(toWorker)
           work_item == JsonDecode(work.data)
           queued    == {toWorker'[i].id : i \in 1..Len(toWorker')}
       IN  /\ toWorker' = BLPopRest(toWorker)
           /\ IF JsonParses(work.data)
              THEN /\ job' = [job EXCEPT ![w] =
                         [id |-> work.id, hash |-> work_item.hash,
                          model |-> work_item.model, callback |-> work_item.callback,
                          engine_model |-> None,
                          exit_code |-> NotRun, upload_success |-> TRUE, idx |-> 1,
                          uploaded |-> EmptyMap, posts |-> 0, success |-> FALSE]]
                   /\ deliveries' = Append(deliveries,
                          [id |-> work.id, w |-> w, hash |-> work_item.hash,
                           mp3_data |-> work.mp3_data, queued |-> queued])
                   /\ Goto(w, "download")
              ELSE /\ deliveries' = Append(deliveries,
                          [id |-> work.id, w |-> w, hash |-> NoHash,
                           mp3_data |-> work.mp3_data, queued |-> queued])
                   /\ UNCHANGED <<job, pc>>
    /\ UNCHANGED <<queueBucket, outputBucket, restVars, inputFiles, outputDirs, results>>

\* separate_audio(), lines 103-106, with download_from_minio(): S3Error
\* returns False; another exception leaves separate_audio and is caught in
\* process_work_item (lines 183-185), which returns False as well
Download(w, get) ==
    /\ pc[w] = "download"
    /\ Faulty(get # "ok")
    /\ resp' = NoResponse
    /\ IF get = "ok" /\ StagedName(job[w].hash) \in DOMAIN queueBucket
       THEN /\ inputFiles' = [inputFiles EXCEPT ![w] = @ \cup {job[w].hash}]
            /\ Goto(w, "engine")
            /\ UNCHANGED job
       ELSE /\ SetJob(w, [success |-> FALSE])
            /\ Goto(w, "returned")
            /\ UNCHANGED inputFiles
    /\ UNCHANGED <<queueBucket, outputBucket, toWorker, restVars, outputDirs,
                   deliveries, results>>

\* (an exit status that is never tested)
EngineFailedNever(exit_code) == FALSE

\* line 116: if exit_code != 0
EngineFailed(exit_code) == exit_code # 0

\* the files of /tmp/output/<model>/<songhash> after a run that wrote `written`
DirAfter(dirs, songhash, written, run) ==
    IF written = {} THEN dirs
    ELSE LET old == IF songhash \in DOMAIN dirs THEN dirs[songhash] ELSE EmptyMap
             new == [t \in DOMAIN old \cup written |->
                        IF t \in written THEN [run |-> run, track |-> t] ELSE old[t]]
         IN  [d \in DOMAIN dirs \cup {songhash} |->
                 IF d = songhash THEN new ELSE dirs[d]]

\* line 111: the command line is built from output_dir and input_file alone
\* and names no model, so demucs runs its default model
DemucsCmdModel(model) == "htdemucs"

\* separate_audio(), lines 111-131: run the engine, test its exit status,
\* glob for the output directory
Engine(w, exit_code, written) ==
    /\ pc[w] = "engine"
    /\ Faulty(exit_code # 0 \/ written # Tracks)
    /\ resp' = NoResponse
    /\ outputDirs' = [outputDirs EXCEPT ![w] =
                         DirAfter(@, job[w].hash, written, job[w].id)]
    /\ IF EngineFailed(exit_code)
       THEN /\ SetJob(w, [engine_model |-> DemucsCmdModel(job[w].model),
                          exit_code |-> exit_code, success |-> FALSE])
            /\ Goto(w, "returned")
       ELSE IF job[w].hash \notin DOMAIN outputDirs'[w]
       THEN /\ SetJob(w, [engine_model |-> DemucsCmdModel(job[w].model),
                          exit_code |-> exit_code, success |-> FALSE])
            /\ Goto(w, "returned")
       ELSE /\ SetJob(w, [engine_model |-> DemucsCmdModel(job[w].model),
                          exit_code |-> exit_code])
            /\ Goto(w, "upload")
    /\ UNCHANGED <<queueBucket, outputBucket, toWorker, restVars, inputFiles,
                   deliveries, results>>

\* separate_audio(), lines 137-146: one iteration of the loop over tracks
Upload(w, put) ==
    /\ pc[w] = "upload"
    /\ Faulty(put # "ok")
    /\ resp' = NoResponse
    /\ LET track    == tracks[job[w].idx]
           dir      == outputDirs[w][job[w].hash]
           next     == IF job[w].idx = Len(tracks) THEN "cleanup" ELSE "upload"
           nextIdx  == IF job[w].idx = Len(tracks) THEN job[w].idx ELSE job[w].idx + 1
       IN  IF track \notin DOMAIN dir
           THEN /\ put = "ok"
                /\ SetJob(w, [upload_success |-> FALSE, idx |-> nextIdx])
                /\ Goto(w, next)
                /\ UNCHANGED outputBucket
           ELSE IF put = "ok"
           THEN /\ outputBucket' =
                       PutObject(outputBucket, ObjectName(job[w].hash, track), dir[track])
                /\ SetJob(w, [idx |-> nextIdx,
                              uploaded |-> PutObject(job[w].uploaded,
                                  ObjectName(job[w].hash, track), dir[track])])
                /\ Goto(w, next)
           ELSE IF put = "S3Error"
           THEN /\ SetJob(w, [upload_success |-> FALSE, idx |-> nextIdx])
                /\ Goto(w, next)
                /\ UNCHANGED outputBucket
           ELSE /\ SetJob(w, [success |-> FALSE])
                /\ Goto(w, "returned")
                /\ UNCHANGED outputBucket
    /\ UNCHANGED <<queueBucket, toWorker, restVars, inputFiles, outputDirs,
                   deliveries, results>>

\* (a return from separate_audio that leaves the scratch files)
CleanupNothing(w) ==
    /\ pc[w] = "cleanup"
    /\ UNCHANGED faults
    /\ resp' = NoResponse
    /\ SetJob(w, [success |-> job[w].upload_success])
    /\ Goto(w, "returned")
    /\ UNCHANGED <<queueBucket, outputBucket, toWorker, restVars, inputFiles,
                   outputDirs, deliveries, results>>

\* separate_audio(), lines 148-155: remove the scratch files, return
Cleanup(w) ==
    /\ pc[w] = "cleanup"
    /\ UNCHANGED faults
    /\ resp' = NoResponse
    /\ inputFiles' = [inputFiles EXCEPT ![w] = @ \ {job[w].hash}]
    /\ outputDirs' = [outputDirs EXCEPT ![w] =
                         [d \in DOMAIN @ \ {job[w].hash} |-> @[d]]]
    /\ SetJob(w, [success |-> job[w].upload_success])
    /\ Goto(w, "returned")
    /\ UNCHANGED <<queueBucket, outputBucket, toWorker, restVars, deliveries, results>>

\* (a callback posted whatever the result)
NotifyWheneverCallback(success, callback) == callback # None

\* process_work_item(), lines 175-178: if success: ... if callback:
ShouldNotify(success, callback) == success /\ callback # None

\* (a return after which the worker leaves its loop when the job failed)
ReturnBreaks(w, post) ==
    /\ pc[w] = "returned"
    /\ Faulty(post = "failed")
    /\ resp' = NoResponse
    /\ results' = (job[w].id :>
                      [hash |-> job[w].hash, callback |-> job[w].callback,
                       exit_code |-> job[w].exit_code, uploaded |-> job[w].uploaded,
                       success |-> job[w].success, posts |-> 0, post |-> None])
                    @@ results
    /\ post = "ok"
    /\ job' = [job EXCEPT ![w] = NoJob]
    /\ Goto(w, IF job[w].success THEN "blpop" ELSE "stopped")
    /\ UNCHANGED <<queueBucket, outputBucket, toWorker, restVars, inputFiles,
                   outputDirs, deliveries>>

\* process_work_item(), lines 175-185, with send_callback(): the POST, if
\* any, and the return to the loop of main()
Return(w, post) ==
    /\ pc[w] = "returned"
    /\ Faulty(post = "failed")
    /\ resp' = NoResponse
    /\ LET posts == IF ShouldNotify(job[w].success, job[w].callback)
                    THEN job[w].posts + 1 ELSE job[w].posts
           posted == IF ShouldNotify(job[w].success, job[w].callback)
                     THEN post ELSE None
       IN  results' = (job[w].id :>
                          [hash |-> job[w].hash, callback |-> job[w].callback,
                           exit_code |-> job[w].exit_code, uploaded |-> job[w].uploaded,
                           success |-> job[w].success, posts |-> posts, post |-> posted])
                        @@ results
    /\ post = "failed" => ShouldNotify(job[w].success, job[w].callback)
    /\ job' = [job EXCEPT ![w] = NoJob]
    /\ Goto(w, "blpop")
    /\ UNCHANGED <<queueBucket, outputBucket, toWorker, restVars, inputFiles,
                   outputDirs, deliveries>>

\* main(), lines 224-226: KeyboardInterrupt, wherever the worker is, ends
\* the loop; the work item in hand is abandoned
Interrupt(w) ==
    /\ pc[w] # "stopped"
    /\ Faulty(TRUE)
    /\ resp' = NoResponse
    /\ Goto(w, "stopped")
    /\ UNCHANGED <<queueBucket, outputBucket, toWorker, restVars, job, inputFiles,
                   outputDirs, deliveries, results>>

(***************************************************************************)
(* The pipeline: the requests to /apiv1/separate and the workers.          *)
(***************************************************************************)
Next ==
    \/ \E data \in Requests, put \in MinioOutcomes : SeparateStage(data, put)
    \/ \E item \in pending, push \in RedisOutcomes : SeparatePush(item, push)
    \/ \E w \in Workers : BLPop(w)
    \/ \E w \in Workers, get \in MinioOutcomes : Download(w, get)
    \/ \E w \in Workers, run \in EngineRuns :
           Engine(w, run.exit_code, run.written)
    \/ \E w \in Workers, put \in MinioOutcomes : Upload(w, put)
    \/ \E w \in Workers : Cleanup(w)
    \/ \E w \in Workers, post \in {"ok", "failed"} : Return(w, post)
    \/ \E w \in Workers : Interrupt(w)

Spec == Init /\ [][Next]_vars

(***************************************************************************)
(* The pipeline with one worker running, and a client that lists the       *)
(* queue and fetches and removes tracks while it runs.                     *)
(***************************************************************************)
RestWorkers == {"w1"}

NextRest ==
    \/ \E data \in Requests, put \in MinioOutcomes : SeparateStage(data, put)
    \/ \E item \in pending, push \in RedisOutcomes : SeparatePush(item, push)
    \/ \E lrange \in RedisOutcomes : GetQueue(lrange)
    \/ \E songhash \in SongHashes, track \in TrackNames, get \in MinioOutcomes :
           GetTrack(songhash, track, get)
    \/ \E songhash \in SongHashes, track \in TrackNames, remove \in MinioOutcomes :
           RemoveTrack(songhash, track, remove)
    \/ \E w \in RestWorkers : BLPop(w)
    \/ \E w \in RestWorkers, get \in MinioOutcomes : Download(w, get)
    \/ \E w \in RestWorkers, run \in EngineRuns :
           Engine(w, run.exit_code, run.written)
    \/ \E w \in RestWorkers, put \in MinioOutcomes : Upload(w, put)
    \/ \E w \in RestWorkers : Cleanup(w)
    \/ \E w \in RestWorkers, post \in {"ok", "failed"} : Return(w, post)
    \/ \E w \in RestWorkers : Interrupt(w)

SpecRest == Init /\ [][NextRest]_vars

(***************************************************************************)
(* The pipeline with one worker running, a client that lists the queue,    *)
(* and another client of the Redis server that pushes onto 'toWorker'.     *)
(***************************************************************************)
NextQueue ==
    \/ \E data \in Requests, put \in MinioOutcomes : SeparateStage(data, put)
    \/ \E item \in pending, push \in RedisOutcomes : SeparatePush(item, push)
    \/ ForeignPush
    \/ \E lrange \in RedisOutcomes : GetQueue(lrange)
    \/ \E w \in RestWorkers : BLPop(w)
    \/ \E w \in RestWorkers, get \in MinioOutcomes : Download(w, get)
    \/ \E w \in RestWorkers, run \in EngineRuns :
           Engine(w, run.exit_code, run.written)
    \/ \E w \in RestWorkers, put \in MinioOutcomes : Upload(w, put)
    \/ \E w \in RestWorkers : Cleanup(w)
    \/ \E w \in RestWorkers, post \in {"ok", "failed"} : Return(w, post)
    \/ \E w \in RestWorkers : Interrupt(w)

SpecQueue == Init /\ [][NextQueue]_vars

(***************************************************************************)
(* The pipeline with workers that keep running: no worker is interrupted,  *)
(* and every call a worker makes (store, engine, POST) returns, so a       *)
(* worker that can take a step eventually takes one.  Nothing is assumed   *)
(* of the request handlers.                                                *)
(***************************************************************************)
WorkerStep(w) ==
    \/ BLPop(w)
    \/ \E get \in MinioOutcomes : Download(w, get)
    \/ \E run \in EngineRuns : Engine(w, run.exit_code, run.written)
    \/ \E put \in MinioOutcomes : Upload(w, put)
    \/ Cleanup(w)
    \/ \E post \in {"ok", "failed"} : Return(w, post)

NextLive ==
    \/ \E data \in Requests, put \in MinioOutcomes : SeparateStage(data, put)
    \/ \E item \in pending, push \in RedisOutcomes : SeparatePush(item, push)
    \/ \E w \in Workers : WorkerStep(w)

SpecLive ==
    Init /\ [][NextLive]_vars /\ \A w \in Workers : WF_vars(WorkerStep(w))

(***************************************************************************)
(* Properties.                                                             *)
(***************************************************************************)
\* position of entry id in the order of the pushes
EnqueuePos(id) == CHOOSE i \in 1..Len(enqueued) : enqueued[i] = id

OutputNames(songhash) == {ObjectName(songhash, t) : t \in Tracks}

InFlight == {w \in Workers : job[w] # NoJob}

\* C1: the queue is FIFO: whenever blpop returns an entry, no entry that was
\* pushed before it is still in the list (entries are dequeued in the order
\* in which they were enqueued).
C1_DequeueInEnqueueOrder ==
    \A i \in 1..Len(deliveries) :
        \A other \in deliveries[i].queued :
            EnqueuePos(other) > EnqueuePos(deliveries[i].id)

\* C2: staging precedes enqueue visibility: for every descriptor in the
\* list 'toWorker' and every descriptor a worker has received, the object
\* "<hash>.mp3" exists in bucket 'queue'.
C2_StagedBeforeVisible ==
    /\ \A i \in 1..Len(toWorker) :
           StagedName(JsonDecode(toWorker[i].data).hash) \in DOMAIN queueBucket
    /\ \A i \in 1..Len(deliveries) :
           StagedName(deliveries[i].hash) \in DOMAIN queueBucket

C2_Witness ==
    /\ Len(deliveries) >= 1
    /\ pending # {}
    /\ \E item \in pending : item.work_item.hash # deliveries[1].hash

\* C3: every entry pushed is received by at most one worker, an entry
\* received is no longer in the list, and no more jobs were started than
\* entries pushed.
C3_DeliveredOnce ==
    /\ \A i, j \in 1..Len(deliveries) :
           deliveries[i].id = deliveries[j].id => i = j
    /\ \A i \in 1..Len(deliveries), k \in 1..Len(toWorker) :
           deliveries[i].id # toWorker[k].id
    /\ Len(deliveries) <= Len(enqueued)

C3_Witness ==
    /\ \A w \in Workers : job[w] # NoJob /\ pc[w] = "upload"
    /\ \E w1, w2 \in Workers : w1 # w2 /\ job[w1].hash = job[w2].hash

\* C4: a run that reports success wrote exactly the four objects
\* <hash>-bass.mp3, <hash>-drums.mp3, <hash>-vocals.mp3, <hash>-other.mp3,
\* each with what the engine produced for that track in that run.
C4_SuccessWroteThisRunsTracks ==
    \A id \in DOMAIN results :
        results[id].success =>
            /\ DOMAIN results[id].uploaded = OutputNames(results[id].hash)
            /\ \A t \in Tracks :
                   results[id].uploaded[ObjectName(results[id].hash, t)]
                       = [run |-> id, track |-> t]

\* C5: a job whose engine run exits with a non-zero status uploads nothing
\* to bucket 'output' and posts no callback, with or without callback URL.
C5_EngineFailureWritesNothing ==
    /\ \A id \in DOMAIN results :
           results[id].exit_code \notin {0, NotRun} =>
               /\ results[id].uploaded = EmptyMap
               /\ results[id].posts = 0
               /\ ~results[id].success
    /\ \A w \in InFlight :
           job[w].exit_code \notin {0, NotRun} =>
               /\ job[w].uploaded = EmptyMap
               /\ job[w].posts = 0
               /\ pc[w] \in {"returned", "stopped"}

C5_Witness ==
    \E id \in DOMAIN results :
        /\ results[id].exit_code = 1
        /\ results[id].callback # None

\* C6: for a work item that process_work_item has returned from, exactly
\* one callback POST was made if the item carries a callback URL and the
\* job succeeded (all four tracks uploaded), and none otherwise; a failed
\* POST leaves the result True; no POST is made before that point.
C6_CallbackIffSuccess ==
    /\ \A id \in DOMAIN results :
           /\ results[id].posts =
                  (IF results[id].callback # None /\ results[id].success THEN 1 ELSE 0)
           /\ results[id].success <=>
                  DOMAIN results[id].uploaded = OutputNames(results[id].hash)
           /\ results[id].post = "failed" => results[id].success
           /\ results[id].posts = 0 <=> results[id].post = None
    /\ \A w \in InFlight : job[w].posts = 0

C6_Witness ==
    /\ \E id \in DOMAIN results :
           results[id].post = "failed" /\ results[id].success
    /\ \E id \in DOMAIN results :
           results[id].callback # None /\ ~results[id].success

\* C7: a request whose raw bytes are empty is refused: no object holding
\* empty bytes is staged, no descriptor with the fingerprint of the empty
\* bytes is pushed, and the fingerprint is never returned with status 200.
C7_EmptyBytesRefused ==
    /\ \A k \in DOMAIN queueBucket : queueBucket[k] # <<>>
    /\ \A i \in 1..Len(toWorker) : toWorker[i].mp3_data # <<>>
    /\ \A item \in pending : item.mp3_data # <<>>
    /\ (resp.op = "separate" /\ resp.status = 200) =>
           resp.body # Sha256Hex56(<<>>)

\* C8: a step that answers /apiv1/separate with 400 or 500 leaves the list
\* 'toWorker' unchanged; a step that answers 200 has pushed exactly one
\* descriptor, which carries the fingerprint returned; and the list grows
\* in no other step of the REST server.
C8_SubmitAllOrNothing ==
    [][ /\ (resp'.op = "separate" /\ resp'.status # 200) =>
               toWorker' = toWorker
        /\ (resp'.op = "separate" /\ resp'.status = 200) =>
               /\ Len(toWorker') = Len(toWorker) + 1
               /\ \E i \in 1..Len(toWorker') :
                      /\ JsonDecode(toWorker'[i].data).hash = resp'.body
                      /\ toWorker =
                             [k \in 1..Len(toWorker) |->
                                 IF k < i THEN toWorker'[k] ELSE toWorker'[k + 1]]
        /\ Len(toWorker') > Len(toWorker) =>
               (resp'.op = "separate" /\ resp'.status = 200)
      ]_vars

C8_Witness ==
    /\ resp.op = "separate"
    /\ resp.status = 500
    /\ DOMAIN queueBucket # {}
    /\ toWorker = <<>>
    /\ enqueued = <<>>

\* every entry pushed is in the list or was received, once
Accounted(id) ==
    Cardinality({k \in 1..Len(toWorker) : toWorker[k].id = id})
      + Cardinality({i \in 1..Len(deliveries) : deliveries[i].id = id}) = 1

\* C9: requests with identical bytes get the same fingerprint, their bytes
\* are staged under the one object "<fingerprint>.mp3", and each request
\* answered 200 has its own entry, which is in the list or was received by
\* a worker exactly once.
C9_SameBytesSameKeyOwnEntries ==
    /\ \A a, b \in pending :
           a.mp3_data = b.mp3_data => a.work_item.hash = b.work_item.hash
    /\ \A i, j \in 1..Len(deliveries) :
           deliveries[i].mp3_data = deliveries[j].mp3_data
               => deliveries[i].hash = deliveries[j].hash
    /\ \A i \in 1..Len(deliveries) :
           {k \in DOMAIN queueBucket : queueBucket[k] = deliveries[i].mp3_data}
               = {StagedName(deliveries[i].hash)}
    /\ \A i \in 1..Len(toWorker) :
           {k \in DOMAIN queueBucket : queueBucket[k] = toWorker[i].mp3_data}
               = {StagedName(JsonDecode(toWorker[i].data).hash)}
    /\ Len(enqueued) = Len(toWorker) + Len(deliveries)
    /\ \A n \in 1..Len(enqueued) : Accounted(enqueued[n])

C9_Witness ==
    \E i, j \in DOMAIN results :
        /\ i # j
        /\ results[i].hash = results[j].hash
        /\ Cardinality(DOMAIN queueBucket) = 1

\* C10 as stated: whenever /apiv1/track/<hash>/<track> is answered, the
\* status is 404 if bucket 'output' holds no object "<hash>-<track>", and
\* the answer is the object's bytes if it holds one.
C10_NotFoundExactlyWhenAbsent ==
    resp.op = "track" =>
        LET object_name == ObjectName(resp.args[1], resp.args[2])
        IN  IF object_name \in DOMAIN outputBucket
            THEN resp.status = 200 /\ resp.body = outputBucket[object_name]
            ELSE resp.status = 404

\* C10 as amended: when MinIO answers the get_object call, the status is
\* 404 if bucket 'output' holds no object "<hash>-<track>", whatever the
\* track name and whatever the state of the job, and the answer is the
\* object's bytes if it holds one; an S3Error gives 404 even if the object
\* exists, any other exception gives 500; the request changes neither
\* bucket nor the list 'toWorker'.
C10_FetchOutput ==
    [][ resp'.op = "track" =>
          LET object_name == ObjectName(resp'.args[1], resp'.args[2])
              get == resp'.args[3]
          IN  /\ UNCHANGED <<queueBucket, outputBucket, toWorker>>
              /\ get = "Exception" => resp'.status = 500
              /\ get = "S3Error" => resp'.status = 404
              /\ (get = "ok" /\ object_name \notin DOMAIN outputBucket) =>
                     resp'.status = 404
              /\ (get = "ok" /\ object_name \in DOMAIN outputBucket) =>
                     /\ resp'.status = 200
                     /\ resp'.body = outputBucket[object_name]
      ]_vars

C10_Witness ==
    /\ resp.op = "track"
    /\ resp.args[2] = "bass.mp3"
    /\ resp.args[3] = "ok"
    /\ resp.status = 404
    /\ pc["w1"] = "upload"
    /\ job["w1"].hash = resp.args[1]
    /\ job["w1"].idx = 1
    /\ "bass.mp3" \in DOMAIN outputDirs["w1"][job["w1"].hash]

\* C11 as stated: whenever /apiv1/remove/<hash>/<track> is answered, the
\* answer is success and bucket 'output' holds no object "<hash>-<track>".
C11_RemoveAlwaysSucceeds ==
    resp.op = "remove" =>
        /\ resp.status = 200
        /\ ObjectName(resp.args[1], resp.args[2]) \notin DOMAIN outputBucket

\* C11 as amended: when MinIO answers the remove_object call, the request
\* is answered with success whether or not the object "<hash>-<track>"
\* existed, and afterwards it does not exist; a request for an object that
\* does not exist changes nothing (so a repeated request succeeds again and
\* changes nothing); when the call raises, the answer is 500 and nothing
\* changes; in every case no other object of bucket 'output', no object of
\* bucket 'queue' and no entry of the list 'toWorker' is affected.
C11_RemoveIdempotent ==
    [][ resp'.op = "remove" =>
          LET object_name == ObjectName(resp'.args[1], resp'.args[2])
              remove == resp'.args[3]
          IN  /\ UNCHANGED <<queueBucket, toWorker>>
              /\ \A k \in DOMAIN outputBucket \ {object_name} :
                     k \in DOMAIN outputBucket' /\ outputBucket'[k] = outputBucket[k]
              /\ DOMAIN outputBucket' \subseteq DOMAIN outputBucket
              /\ remove = "ok" =>
                     /\ resp'.status = 200
                     /\ object_name \notin DOMAIN outputBucket'
              /\ (remove = "ok" /\ object_name \notin DOMAIN outputBucket) =>
                     outputBucket' = outputBucket
              /\ remove # "ok" =>
                     /\ resp'.status = 500
                     /\ outputBucket' = outputBucket
      ]_vars

\* an object was removed while its sibling tracks, the staged input and a
\* queued entry are there
C11_Witness ==
    /\ resp.op = "remove"
    /\ resp.status = 200
    /\ resp.args[2] = "bass.mp3"
    /\ ObjectName(resp.args[1], "bass.mp3") \notin DOMAIN outputBucket
    /\ ObjectName(resp.args[1], "drums.mp3") \in DOMAIN outputBucket
    /\ StagedName(resp.args[1]) \in DOMAIN queueBucket
    /\ toWorker # <<>>

\* C12: an object of bucket 'output' stays in the bucket (it may be
\* overwritten) in every step except a successful /apiv1/remove request for
\* exactly its songhash and track: no step of a worker and no
\* /apiv1/separate request removes it.
C12_OutputPersists ==
    [][ \A k \in DOMAIN outputBucket :
            k \notin DOMAIN outputBucket' =>
                /\ resp'.op = "remove"
                /\ resp'.status = 200
                /\ ObjectName(resp'.args[1], resp'.args[2]) = k
      ]_vars

\* the same fingerprint was processed twice, the second run published only
\* part of the tracks and failed: the first run's bass.mp3 is still there,
\* the other three were overwritten
C12_Witness ==
    /\ Len(deliveries) = 2
    /\ deliveries[1].id \in DOMAIN results
    /\ deliveries[2].id \in DOMAIN results
    /\ deliveries[1].hash = deliveries[2].hash
    /\ results[deliveries[1].id].success
    /\ ~results[deliveries[2].id].success
    /\ LET songhash == deliveries[1].hash
       IN  /\ DOMAIN outputBucket = OutputNames(songhash)
           /\ outputBucket[ObjectName(songhash, "bass.mp3")].run = deliveries[1].id
           /\ outputBucket[ObjectName(songhash, "drums.mp3")].run = deliveries[2].id

\* the positions of the list whose entry decodes
Parseable(list) == {k \in 1..Len(list) : JsonParses(list[k].data)}

\* C13: a /apiv1/queue request leaves the list 'toWorker' as it is; when
\* answered 200, its listing holds one hash for every entry of the list that
\* decodes and none for the others, and the hash of the n-th such entry
\* counted from the head is at position n; and when the next step after the
\* listing is a blpop that returns a work item, that item is the first of
\* the listing.
C13_ListingIsQueue ==
    [][ /\ resp'.op = "queue" =>
              /\ toWorker' = toWorker
              /\ resp'.status = 200 =>
                     /\ Len(resp'.body) = Cardinality(Parseable(toWorker))
                     /\ \A k \in Parseable(toWorker) :
                            resp'.body[Cardinality({j \in Parseable(toWorker) : j <= k})]
                                = toWorker[k].data[1]
        /\ (/\ resp.op = "queue"
            /\ resp.status = 200
            /\ Len(deliveries') > Len(deliveries)
            /\ deliveries'[Len(deliveries')].hash # NoHash) =>
               /\ resp.body # <<>>
               /\ deliveries'[Len(deliveries')].hash = resp.body[1]
      ]_vars

\* a listing of two different hashes taken while an entry that does not
\* decode sits between their entries
C13_Witness ==
    /\ resp.op = "queue"
    /\ resp.status = 200
    /\ Len(toWorker) = 3
    /\ ~JsonParses(toWorker[2].data)
    /\ Len(resp.body) = 2
    /\ resp.body[1] # resp.body[2]

\* C14: a worker that is back at blpop has left no file in /tmp/input and
\* no directory in /tmp/output, whatever became of the jobs it consumed.
C14_ScratchRemovedAtIdle ==
    \A w \in Workers :
        pc[w] = "blpop" => inputFiles[w] = {} /\ outputDirs[w] = EmptyMap

\* the step in which worker w leaves process_work_item having posted the
\* callback
Posts(w) ==
    /\ pc[w] = "returned"
    /\ pc'[w] = "blpop"
    /\ results'[job[w].id].posts = 1

StageOrder ==
    { <<"blpop", "download">>, <<"download", "engine">>, <<"engine", "upload">>,
      <<"upload", "cleanup">>, <<"cleanup", "returned">>, <<"returned", "blpop">>,
      <<"download", "returned">>, <<"engine", "returned">>, <<"upload", "returned">> }

C16_BestEffortPublishing ==
    [][ \A w \in Workers :
            pc[w] = "upload" =>
                /\ pc'[w] \notin {"upload", "stopped"} =>
                       /\ job[w].idx = Len(tracks)
                       /\ pc'[w] = "cleanup"
                /\ \A k \in DOMAIN job[w].uploaded : k \in DOMAIN outputBucket'
                /\ (/\ pc'[w] = "cleanup"
                    /\ DOMAIN job'[w].uploaded # OutputNames(job[w].hash)) =>
                       ~job'[w].upload_success
      ]_vars

\* C17: the model the engine is run with is the model of the descriptor
\* the worker received (the model given in the request, or "htdemucs").
C17_EngineModelIsDescriptorModel ==
    \A w \in InFlight :
        job[w].exit_code # NotRun => job[w].engine_model = job[w].model

\* the ids of the entries blpop has returned
Dequeued == {deliveries[i].id : i \in 1..Len(deliveries)}

\* C18: an entry that blpop has returned is never in the list 'toWorker'
\* again, whatever becomes of it (the job fails at any stage, the entry does
\* not decode, the worker is interrupted with the job in hand); the list
\* grows by one new entry at a time and in no step of a worker (only in a
\* step of separate() or of another client of the Redis server); a worker
\* takes up only an entry no worker has taken before, and the result of a
\* job, once returned, is never replaced.
C18_NoRedelivery ==
    [][ /\ \A k \in 1..Len(toWorker') : toWorker'[k].id \notin Dequeued'
        /\ Len(toWorker') > Len(toWorker) =>
               /\ Tail(toWorker') = toWorker
               /\ Head(toWorker').id \notin Dequeued
               /\ \A k \in 1..Len(toWorker) : toWorker[k].id # Head(toWorker').id
               /\ UNCHANGED workerVars
               /\ \/ resp'.op = "separate" /\ resp'.status = 200
                  \/ Head(toWorker').id < 0
        /\ Len(deliveries') > Len(deliveries) =>
               /\ Len(deliveries') = Len(deliveries) + 1
               /\ deliveries'[Len(deliveries')].id \notin Dequeued
               /\ deliveries'[Len(deliveries')].id \notin DOMAIN results
        /\ \A id \in DOMAIN results :
               id \in DOMAIN results' /\ results'[id] = results[id]
      ]_vars

\* the list is empty after an entry that did not decode, a job that failed
\* and a job the worker was interrupted in
C18_Witness ==
    /\ toWorker = <<>>
    /\ \E i \in 1..Len(deliveries) : deliveries[i].hash = NoHash
    /\ \E id \in DOMAIN results : ~results[id].success
    /\ \E w \in RestWorkers : pc[w] = "stopped" /\ job[w] # NoJob

\* the jobs worker w has taken up
TakenBy(w) ==
    {deliveries[i].id : i \in {k \in 1..Len(deliveries) :
                                 deliveries[k].w = w /\ deliveries[k].hash # NoHash}}

\* C19: with every call returning, a worker that has received a work item
\* is eventually back at blpop, whatever stage fails (from every point on
\* there is a later point at which it is at blpop); it never leaves its
\* loop; and it is at blpop exactly when it has no job in hand, the one job
\* in hand being the only job it took and has not returned from.
C19_WorkerReturnsToIdle ==
    /\ \A w \in Workers : []<>(pc[w] = "blpop")
    /\ [](\A w \in Workers :
             /\ pc[w] # "stopped"
             /\ pc[w] = "blpop" <=> job[w] = NoJob
             /\ TakenBy(w) \ DOMAIN results =
                    IF job[w] = NoJob THEN {} ELSE {job[w].id})

\* a worker is back at blpop after a job that failed in the engine, while
\* another entry waits in the list
C19_Witness ==
    \E w \in Workers :
        /\ pc[w] = "blpop"
        /\ \E id \in TakenBy(w) :
               /\ id \in DOMAIN results
               /\ results[id].exit_code = 1
        /\ toWorker # <<>>

\* C20: with workers that keep running, the list 'toWorker' is eventually
\* empty for good, and from then on every entry that was pushed has been
\* returned by blpop exactly once.
C20_QueueDrains ==
    <>[](/\ toWorker = <<>>
         /\ \A n \in 1..Len(enqueued) :
                Cardinality({i \in 1..Len(deliveries) :
                                deliveries[i].id = enqueued[n]}) = 1)

\* the list is empty after two entries were pushed and both were returned
C20_Witness ==
    /\ toWorker = <<>>
    /\ Len(enqueued) = 2
    /\ Len(deliveries) = 2
    /\ DOMAIN results = {enqueued[1], enqueued[2]}

=============================================================================
